---- MODULE Spec2Model ----
(***************************************************************************)
(* Model of src/main.py: the PDF-to-Markdown conversion engine.            *)
(*                                                                         *)
(* A Python str is modelled as a sequence of one-character strings, so     *)
(* that strip(), join() and f-string formatting are computed character by  *)
(* character.  A font size is an integer number of points.                 *)
(***************************************************************************)
EXTENDS Integers, Sequences, FiniteSets, TLC

(***************************************************************************)
(* Bounds of the model.                                                    *)
(***************************************************************************)
MaxLines == 2        \* lines of the text block under test
MaxSpans == 2        \* spans of one line
MaxBlockSpans == 3   \* spans of the text block under test, all lines together
MaxImages == 3       \* image references of the page given to the extractor
MaxPages == 3        \* pages of a document

(***************************************************************************)
(* Program constants.                                                      *)
(***************************************************************************)
TextBlockType == 0
BoldFlag == 16
ItalicFlag == 2
H1Threshold == 18
H2Threshold == 14
H3Threshold == 12
ParseFailureStatus == 400

(***************************************************************************)
(* Strings.                                                                *)
(***************************************************************************)
\* the whitespace str.strip() removes, among the characters of the model
IsSpace(c) == c \in {" ", "\n", "\t", "\r"}

RECURSIVE LStrip(_)
LStrip(s) == IF s # <<>> /\ IsSpace(Head(s)) THEN LStrip(Tail(s)) ELSE s

RECURSIVE RStrip(_)
RStrip(s) ==
    IF s # <<>> /\ IsSpace(s[Len(s)]) THEN RStrip(SubSeq(s, 1, Len(s) - 1)) ELSE s

\* str.strip()
Strip(s) == RStrip(LStrip(s))

\* sep.join(parts)
RECURSIVE Join(_, _)
Join(parts, sep) ==
    IF parts = <<>> THEN <<>>
    ELSE IF Len(parts) = 1 THEN parts[1]
    ELSE parts[1] \o sep \o Join(Tail(parts), sep)

Digits == <<"0", "1", "2", "3", "4", "5", "6", "7", "8", "9">>

\* str(n) of a non-negative int, as an f-string formats it
RECURSIVE IntToStr(_)
IntToStr(n) ==
    IF n < 10 THEN <<Digits[n + 1]>>
    ELSE IntToStr(n \div 10) \o <<Digits[(n % 10) + 1]>>

\* a & bit, for bit a power of two: non-zero iff the bit is set
BitAnd(a, bit) == IF (a \div bit) % 2 = 1 THEN bit ELSE 0

Max(a, b) == IF a >= b THEN a ELSE b

(***************************************************************************)
(* extract_text_with_formatting                                            *)
(***************************************************************************)
Stars(n) == [i \in 1..n |-> "*"]

\* the body of the span loop: the span's text with its emphasis markers
FormatSpan(span) ==
    LET is_bold == BitAnd(span.flags, BoldFlag)
        is_italic == BitAnd(span.flags, ItalicFlag)
    IN  IF is_bold # 0 /\ is_italic # 0 THEN Stars(3) \o span.text \o Stars(3)
        ELSE IF is_bold # 0 THEN Stars(2) \o span.text \o Stars(2)
        ELSE IF is_italic # 0 THEN Stars(1) \o span.text \o Stars(1)
        ELSE span.text

\* line_text after the span loop
RECURSIVE LineText(_)
LineText(spans) ==
    IF spans = <<>> THEN <<>>
    ELSE FormatSpan(Head(spans)) \o LineText(Tail(spans))

\* max_font_size after the span loop; it starts at 0
RECURSIVE MaxFontSize(_)
MaxFontSize(spans) ==
    IF spans = <<>> THEN 0
    ELSE Max(MaxFontSize(SubSeq(spans, 1, Len(spans) - 1)), spans[Len(spans)].size)

\* block_text after the line loop: (stripped text, max font size) of each
\* line whose stripped text is not empty
RECURSIVE BlockText(_)
BlockText(lines) ==
    IF lines = <<>> THEN <<>>
    ELSE LET line_text == LineText(Head(lines))
             rest == BlockText(Tail(lines))
         IN  IF Strip(line_text) # <<>>
             THEN <<[text |-> Strip(line_text), size |-> MaxFontSize(Head(lines))]>> \o rest
             ELSE rest

RECURSIVE SumSizes(_)
SumSizes(block_text) ==
    IF block_text = <<>> THEN 0 ELSE Head(block_text).size + SumSizes(Tail(block_text))

\* AvgAbove with >= in place of >
AvgAtLeast(block_text, threshold) ==
    SumSizes(block_text) >= threshold * Len(block_text)

\* avg_font_size > threshold, for avg_font_size = sum / len
AvgAbove(block_text, threshold) ==
    SumSizes(block_text) > threshold * Len(block_text)

\* the heading prefix chosen by the if/elif chain
HeadingPrefix(block_text) ==
    IF AvgAbove(block_text, H1Threshold) THEN <<"#", " ">>
    ELSE IF AvgAbove(block_text, H2Threshold) THEN <<"#", "#", " ">>
    ELSE IF AvgAbove(block_text, H3Threshold) THEN <<"#", "#", "#", " ">>
    ELSE <<>>

CombinedText(block_text) ==
    Join([i \in 1..Len(block_text) |-> block_text[i].text], <<" ">>)

\* what one block appends to markdown_content: zero or one string
RenderBlock(block) ==
    IF block.type # TextBlockType THEN <<>>
    ELSE LET block_text == BlockText(block.lines)
         IN  IF block_text = <<>> THEN <<>>
             ELSE <<HeadingPrefix(block_text) \o CombinedText(block_text)>>

\* markdown_content after the block loop
RECURSIVE MarkdownContent(_)
MarkdownContent(blocks) ==
    IF blocks = <<>> THEN <<>>
    ELSE RenderBlock(Head(blocks)) \o MarkdownContent(Tail(blocks))

\* page.get_text("dict") may raise; nothing in the function catches it
extract_text_with_formatting(page) ==
    IF page.text_ok
    THEN [raised |-> FALSE, text |-> Join(MarkdownContent(page.blocks), <<"\n", "\n">>)]
    ELSE [raised |-> TRUE, text |-> <<>>]

(***************************************************************************)
(* extract_images_as_base64                                                *)
(***************************************************************************)
B64Alphabet ==
    << "A", "B", "C", "D", "E", "F", "G", "H", "I", "J", "K", "L", "M",
       "N", "O", "P", "Q", "R", "S", "T", "U", "V", "W", "X", "Y", "Z",
       "a", "b", "c", "d", "e", "f", "g", "h", "i", "j", "k", "l", "m",
       "n", "o", "p", "q", "r", "s", "t", "u", "v", "w", "x", "y", "z",
       "0", "1", "2", "3", "4", "5", "6", "7", "8", "9", "+", "/" >>

B64Char(n) == B64Alphabet[(n % 64) + 1]

\* base64.b64encode(image_bytes).decode("utf-8")
RECURSIVE b64encode(_)
b64encode(bytes) ==
    IF bytes = <<>> THEN <<>>
    ELSE IF Len(bytes) = 1 THEN
        LET n == bytes[1] * 65536
        IN  <<B64Char(n \div 262144), B64Char(n \div 4096), "=", "=">>
    ELSE IF Len(bytes) = 2 THEN
        LET n == bytes[1] * 65536 + bytes[2] * 256
        IN  <<B64Char(n \div 262144), B64Char(n \div 4096), B64Char(n \div 64), "=">>
    ELSE
        LET n == bytes[1] * 65536 + bytes[2] * 256 + bytes[3]
        IN  <<B64Char(n \div 262144), B64Char(n \div 4096), B64Char(n \div 64), B64Char(n)>>
            \o b64encode(SubSeq(bytes, 4, Len(bytes)))

\* The document's image objects by xref: what page.parent.extract_image(xref)
\* gives.  ok = FALSE is a retrieval that raises (or lacks "image"/"ext").
ImageTable ==
    << [ok |-> TRUE, ext |-> <<"p", "n", "g">>, image |-> <<137, 80, 78>>],
       [ok |-> TRUE, ext |-> <<"j", "p", "e", "g">>, image |-> <<255, 216>>],
       [ok |-> FALSE, ext |-> <<>>, image |-> <<>>],
       [ok |-> TRUE, ext |-> <<"g", "i", "f">>, image |-> <<71>>] >>

Xrefs == DOMAIN ImageTable

\* the try block of the image loop for one reference: the appended
\* descriptor, or nothing when the except clause skips the image
ExtractOne(xref, img_index, page_number) ==
    LET base_image == ImageTable[xref]
    IN  IF base_image.ok
        THEN << [page |-> page_number, index |-> img_index,
                 format |-> base_image.ext, base64 |-> b64encode(base_image.image)] >>
        ELSE <<>>

\* ExtractFrom leaving the loop at the first image that cannot be extracted
RECURSIVE ExtractUntilFailure(_, _, _)
ExtractUntilFailure(image_list, img_index, page_number) ==
    IF image_list = <<>> \/ ~ImageTable[Head(image_list)].ok THEN <<>>
    ELSE ExtractOne(Head(image_list), img_index, page_number)
         \o ExtractUntilFailure(Tail(image_list), img_index + 1, page_number)

\* the loop over enumerate(image_list), from position img_index on
RECURSIVE ExtractFrom(_, _, _)
ExtractFrom(image_list, img_index, page_number) ==
    IF image_list = <<>> THEN <<>>
    ELSE ExtractOne(Head(image_list), img_index, page_number)
         \o ExtractFrom(Tail(image_list), img_index + 1, page_number)

\* page.get_images(full=True) is outside the try block: its failure raises
extract_images_as_base64(page, page_number) ==
    IF page.images_ok
    THEN [raised |-> FALSE, images |-> ExtractFrom(page.images, 0, page_number)]
    ELSE [raised |-> TRUE, images |-> <<>>]

(***************************************************************************)
(* convert_pdf_to_markdown and the /convert handler                        *)
(***************************************************************************)
VARIABLES
    filename,            \* file.filename of the upload
    pdf_bytes,           \* the upload, as the Document Reader sees it
    include_images,      \* query flag
    embed_images,        \* query flag
    pc,                  \* position of the request in the handler
    handle,              \* pdf_document: "none", "open" or "closed"
    close_count,         \* calls of pdf_document.close()
    page_number,         \* index of the next page of the loop
    markdown_pages,      \* list of strings
    all_images,          \* list of image descriptors
    result,              \* the dict convert_pdf_to_markdown returns
    response,            \* the dict convert_pdf returns
    error,               \* the exception that left the handler, if any
    get_images_calls,    \* calls of page.get_images
    extract_image_calls, \* calls of page.parent.extract_image
    page,                \* argument of a page function called on its own
    page_no,             \* its page_number argument
    text_out,            \* what extract_text_with_formatting gave
    images_out           \* what extract_images_as_base64 gave

vars ==
    << filename, pdf_bytes, include_images, embed_images, pc, handle, close_count,
       page_number, markdown_pages, all_images, result, response, error,
       get_images_calls, extract_image_calls, page, page_no, text_out, images_out >>

request_vars ==
    << filename, pdf_bytes, include_images, embed_images, pc, handle, close_count,
       page_number, markdown_pages, all_images, result, response, error,
       get_images_calls, extract_image_calls >>

function_vars == << page, page_no, text_out, images_out >>

Span(text, size, flags) == [text |-> text, size |-> size, flags |-> flags]
TextBlock(lines) == [type |-> TextBlockType, lines |-> lines]
ImageBlock == [type |-> 1, lines |-> <<>>]
Page(blocks, images, text_ok, images_ok) ==
    [blocks |-> blocks, images |-> images, text_ok |-> text_ok, images_ok |-> images_ok]

NoError == [kind |-> "none", status_code |-> 0, message |-> "", cause |-> ""]
NoResult == [set |-> FALSE, markdown |-> <<>>, has_images |-> FALSE, images |-> <<>>]
NoResponse == [set |-> FALSE, filename |-> <<>>, markdown |-> <<>>, images |-> <<>>]
NoOutput == [set |-> FALSE, raised |-> FALSE, value |-> <<>>]
NoPage == Page(<<>>, <<>>, TRUE, TRUE)

\* HTTPException(status_code=..., detail=...)
HTTPException(status_code, message, cause) ==
    [kind |-> "HTTPException", status_code |-> status_code, message |-> message,
     cause |-> cause]

\* any other exception, which nothing in the handler catches
Uncaught(cause) ==
    [kind |-> "Exception", status_code |-> 0, message |-> "", cause |-> cause]

(***************************************************************************)
(* The documents of the model.                                             *)
(***************************************************************************)
HeadingBlock == TextBlock(<< <<Span(<<"T">>, 22, 0)>> >>)
PlainBlock ==
    TextBlock(<< <<Span(<<"a", " ">>, 12, 0), Span(<<"b">>, 12, BoldFlag)>>,
                 <<Span(<<" ">>, 12, 0)>>,
                 <<Span(<<"c">>, 10, ItalicFlag)>> >>)
SpacerBlock == TextBlock(<< <<Span(<<" ">>, 22, 0)>>, <<>> >>)

PagePalette ==
    { Page(<<>>, <<>>, TRUE, TRUE),
      Page(<<HeadingBlock, ImageBlock, PlainBlock>>, <<1>>, TRUE, TRUE),
      Page(<<SpacerBlock>>, <<3, 2, 4>>, TRUE, TRUE),
      Page(<<PlainBlock>>, <<3>>, TRUE, TRUE),
      Page(<<PlainBlock>>, <<1>>, FALSE, TRUE),
      Page(<<HeadingBlock>>, <<2>>, TRUE, FALSE) }

SeqsUpTo(S, n) == UNION {[1..k -> S] : k \in 0..n}

Malformed == [valid |-> FALSE, cause |-> "no objects found", pages |-> <<>>]

Documents ==
    {[valid |-> TRUE, cause |-> "", pages |-> ps] : ps \in SeqsUpTo(PagePalette, MaxPages)}

Filenames ==
    { <<"x", ".", "P", "d", "f">>, <<"x", ".", "t", "x", "t">> }

(***************************************************************************)
(* convert_pdf: the filename check                                         *)
(***************************************************************************)
LowerChar(c) ==
    IF c = "P" THEN "p" ELSE IF c = "D" THEN "d" ELSE IF c = "F" THEN "f" ELSE c

\* str.lower()
Lower(s) == [i \in 1..Len(s) |-> LowerChar(s[i])]

\* str.endswith(suffix)
EndsWith(s, suffix) ==
    /\ Len(s) >= Len(suffix)
    /\ SubSeq(s, Len(s) - Len(suffix) + 1, Len(s)) = suffix

IsPdfName(name) == EndsWith(Lower(name), <<".", "p", "d", "f">>)

(***************************************************************************)
(* convert_pdf_to_markdown: the fragments                                  *)
(***************************************************************************)
\* f"\n---\n\n*Page {page_number + 1}*\n"
Separator(n) ==
    <<"\n", "-", "-", "-", "\n", "\n", "*", "P", "a", "g", "e", " ">>
    \o IntToStr(n + 1) \o <<"*", "\n">>

\* f"\n\n![Image {img['index'] + 1} from page {img['page']}](data:image/{img['format']};base64,{img['base64']})\n"
ImageMarkdown(img) ==
    <<"\n", "\n", "!", "[", "I", "m", "a", "g", "e", " ">> \o IntToStr(img.index + 1)
    \o <<" ", "f", "r", "o", "m", " ", "p", "a", "g", "e", " ">> \o IntToStr(img.page)
    \o <<"]", "(", "d", "a", "t", "a", ":", "i", "m", "a", "g", "e", "/">> \o img.format
    \o <<";", "b", "a", "s", "e", "6", "4", ",">> \o img.base64 \o <<")", "\n">>

\* EmbedImages putting each fragment in front of the page's markdown
RECURSIVE EmbedImagesInFront(_, _)
EmbedImagesInFront(page_markdown, page_images) ==
    IF page_images = <<>> THEN page_markdown
    ELSE EmbedImagesInFront(ImageMarkdown(Head(page_images)) \o page_markdown,
                            Tail(page_images))

\* the loop "for img in page_images: page_markdown += image_markdown"
RECURSIVE EmbedImages(_, _)
EmbedImages(page_markdown, page_images) ==
    IF page_images = <<>> THEN page_markdown
    ELSE EmbedImages(page_markdown \o ImageMarkdown(Head(page_images)), Tail(page_images))

\* WithSeparator without the test page_number > 0
WithSeparatorAlways(pages, n) == Append(pages, Separator(n))

\* markdown_pages once the separator of page page_number is appended
WithSeparator(pages, n) ==
    IF n > 0 THEN Append(pages, Separator(n)) ELSE pages

\* page_markdown at the end of the loop body
PageMarkdown(text, page_images) ==
    IF include_images /\ embed_images /\ page_images # <<>>
    THEN EmbedImages(text, page_images)
    ELSE text

\* CollectImages putting the page's images in front of the list
CollectImagesInFront(images, page_images) ==
    IF include_images /\ ~(embed_images /\ page_images # <<>>)
    THEN page_images \o images
    ELSE images

\* all_images at the end of the loop body
CollectImages(images, page_images) ==
    IF include_images /\ ~(embed_images /\ page_images # <<>>)
    THEN images \o page_images
    ELSE images

\* MakeResult testing only "not embed_images"
MakeResultUnlessEmbedded(pages, images) ==
    [set |-> TRUE, markdown |-> Join(pages, <<"\n", "\n">>),
     has_images |-> ~embed_images,
     images |-> IF ~embed_images THEN images ELSE <<>>]

\* the result dict; "images" is a key only when has_images
MakeResult(pages, images) ==
    [set |-> TRUE, markdown |-> Join(pages, <<"\n", "\n">>),
     has_images |-> include_images /\ ~embed_images,
     images |-> IF include_images /\ ~embed_images THEN images ELSE <<>>]

\* result.get("images", [])
GetImages(res) == IF res.has_images THEN res.images ELSE <<>>

(***************************************************************************)
(* One request to /convert.                                                *)
(***************************************************************************)
Init ==
    /\ filename \in Filenames
    /\ pdf_bytes \in {Malformed} \cup Documents
    /\ include_images \in BOOLEAN
    /\ embed_images \in BOOLEAN
    /\ pc = "request"
    /\ handle = "none"
    /\ close_count = 0
    /\ page_number = 0
    /\ markdown_pages = <<>>
    /\ all_images = <<>>
    /\ result = NoResult
    /\ response = NoResponse
    /\ error = NoError
    /\ get_images_calls = 0
    /\ extract_image_calls = 0
    /\ page = NoPage
    /\ page_no = 0
    /\ text_out = NoOutput
    /\ images_out = NoOutput

\* convert_pdf: the filename does not end in ".pdf"
RejectFilename ==
    /\ pc = "request"
    /\ ~IsPdfName(filename)
    /\ error' = HTTPException(ParseFailureStatus, "Uploaded file must be a PDF", "")
    /\ pc' = "raised"
    /\ UNCHANGED << filename, pdf_bytes, include_images, embed_images, handle,
                    close_count, page_number, markdown_pages, all_images, result,
                    response, get_images_calls, extract_image_calls >>
    /\ UNCHANGED function_vars

\* convert_pdf: the file is read and convert_pdf_to_markdown is called
ReadUpload ==
    /\ pc = "request"
    /\ IsPdfName(filename)
    /\ pc' = "open"
    /\ UNCHANGED << filename, pdf_bytes, include_images, embed_images, handle,
                    close_count, page_number, markdown_pages, all_images, result,
                    response, error, get_images_calls, extract_image_calls >>
    /\ UNCHANGED function_vars

\* OpenFails without the try/except around fitz.open
OpenFailsUncaught ==
    /\ pc = "open"
    /\ ~pdf_bytes.valid
    /\ error' = Uncaught(pdf_bytes.cause)
    /\ pc' = "raised"
    /\ UNCHANGED << filename, pdf_bytes, include_images, embed_images, handle,
                    close_count, page_number, markdown_pages, all_images, result,
                    response, get_images_calls, extract_image_calls >>
    /\ UNCHANGED << page, page_no, text_out, images_out >>

\* fitz.open raises: the except clause raises HTTPException 400
OpenFails ==
    /\ pc = "open"
    /\ ~pdf_bytes.valid
    /\ error' = HTTPException(ParseFailureStatus, "Failed to parse PDF: ", pdf_bytes.cause)
    /\ pc' = "raised"
    /\ UNCHANGED << filename, pdf_bytes, include_images, embed_images, handle,
                    close_count, page_number, markdown_pages, all_images, result,
                    response, get_images_calls, extract_image_calls >>
    /\ UNCHANGED function_vars

\* fitz.open returns the document; the two lists are created
OpenDocument ==
    /\ pc = "open"
    /\ pdf_bytes.valid
    /\ handle' = "open"
    /\ markdown_pages' = <<>>
    /\ all_images' = <<>>
    /\ page_number' = 0
    /\ pc' = "loop"
    /\ UNCHANGED << filename, pdf_bytes, include_images, embed_images, close_count,
                    result, response, error, get_images_calls, extract_image_calls >>
    /\ UNCHANGED function_vars

\* one iteration of the page loop in which extract_text_with_formatting raises
PageTextRaises ==
    /\ pc = "loop"
    /\ page_number < Len(pdf_bytes.pages)
    /\ extract_text_with_formatting(pdf_bytes.pages[page_number + 1]).raised
    /\ markdown_pages' = WithSeparator(markdown_pages, page_number)
    /\ error' = Uncaught("get_text")
    /\ pc' = "raised"
    /\ UNCHANGED << filename, pdf_bytes, include_images, embed_images, handle,
                    close_count, page_number, all_images, result, response,
                    get_images_calls, extract_image_calls >>
    /\ UNCHANGED function_vars

\* one iteration of the page loop in which extract_images_as_base64 raises
PageImagesRaise ==
    /\ pc = "loop"
    /\ page_number < Len(pdf_bytes.pages)
    /\ ~extract_text_with_formatting(pdf_bytes.pages[page_number + 1]).raised
    /\ include_images
    /\ extract_images_as_base64(pdf_bytes.pages[page_number + 1], page_number + 1).raised
    /\ markdown_pages' = WithSeparator(markdown_pages, page_number)
    /\ get_images_calls' = get_images_calls + 1
    /\ error' = Uncaught("get_images")
    /\ pc' = "raised"
    /\ UNCHANGED << filename, pdf_bytes, include_images, embed_images, handle,
                    close_count, page_number, all_images, result, response,
                    extract_image_calls >>
    /\ UNCHANGED function_vars

\* one complete iteration of the page loop
ProcessPage ==
    /\ pc = "loop"
    /\ page_number < Len(pdf_bytes.pages)
    /\ LET p == pdf_bytes.pages[page_number + 1]
           text == extract_text_with_formatting(p)
           extracted == extract_images_as_base64(p, page_number + 1)
           page_images == IF include_images THEN extracted.images ELSE <<>>
       IN  /\ ~text.raised
           /\ include_images => ~extracted.raised
           /\ markdown_pages' =
                Append(WithSeparator(markdown_pages, page_number),
                       PageMarkdown(text.text, page_images))
           /\ all_images' = CollectImages(all_images, page_images)
           /\ get_images_calls' = get_images_calls + (IF include_images THEN 1 ELSE 0)
           /\ extract_image_calls' =
                extract_image_calls + (IF include_images THEN Len(p.images) ELSE 0)
    /\ page_number' = page_number + 1
    /\ UNCHANGED << filename, pdf_bytes, include_images, embed_images, pc, handle,
                    close_count, result, response, error >>
    /\ UNCHANGED function_vars

\* after the loop: close, join, build the result and return it
CloseAndReturn ==
    /\ pc = "loop"
    /\ page_number = Len(pdf_bytes.pages)
    /\ handle' = "closed"
    /\ close_count' = close_count + 1
    /\ result' = MakeResult(markdown_pages, all_images)
    /\ pc' = "returned"
    /\ UNCHANGED << filename, pdf_bytes, include_images, embed_images, page_number,
                    markdown_pages, all_images, response, error, get_images_calls,
                    extract_image_calls >>
    /\ UNCHANGED function_vars

\* convert_pdf builds its response from the result
Respond ==
    /\ pc = "returned"
    /\ response' = [set |-> TRUE, filename |-> filename, markdown |-> result.markdown,
                    images |-> GetImages(result)]
    /\ pc' = "responded"
    /\ UNCHANGED << filename, pdf_bytes, include_images, embed_images, handle,
                    close_count, page_number, markdown_pages, all_images, result,
                    error, get_images_calls, extract_image_calls >>
    /\ UNCHANGED function_vars

Next ==
    \/ RejectFilename
    \/ ReadUpload
    \/ OpenFails
    \/ OpenDocument
    \/ PageTextRaises
    \/ PageImagesRaise
    \/ ProcessPage
    \/ CloseAndReturn
    \/ Respond

Spec == Init /\ [][Next]_vars

(***************************************************************************)
(* extract_text_with_formatting called on one page.                        *)
(***************************************************************************)
SpanPalette ==
    { Span(<<"a">>, 10, 0),
      Span(<<"a">>, 14, 0),
      Span(<<"a">>, 18, 0),
      Span(<<"a">>, 22, 0),
      Span(<<" ">>, 22, 0),
      Span(<<>>, 22, BoldFlag),
      Span(<<" ">>, 10, ItalicFlag),
      Span(<<"a">>, 12, 0),
      Span(<<"c">>, 13, ItalicFlag),
      Span(<<" ", "b">>, 12, BoldFlag + ItalicFlag + 4) }

RECURSIVE SumSeq(_)
SumSeq(ns) == IF ns = <<>> THEN 0 ELSE Head(ns) + SumSeq(Tail(ns))

\* the numbers of spans of the lines of a block
BlockShapes ==
    {sh \in SeqsUpTo(0..MaxSpans, MaxLines) : SumSeq(sh) <= MaxBlockSpans}

\* the lines of the given span counts, filled from the spans in order
RECURSIVE Lines(_, _)
Lines(shape, spans) ==
    IF shape = <<>> THEN <<>>
    ELSE <<SubSeq(spans, 1, Head(shape))>>
         \o Lines(Tail(shape), SubSeq(spans, Head(shape) + 1, Len(spans)))

\* the blocks before and after the block under test
Surroundings ==
    { << <<>>, <<>> >>,
      << <<PlainBlock>>, <<>> >>,
      << <<ImageBlock>>, <<HeadingBlock>> >> }

InitText ==
    /\ \E sur \in Surroundings, sh \in BlockShapes :
          \E spans \in [1..SumSeq(sh) -> SpanPalette] :
             page = Page(sur[1] \o <<TextBlock(Lines(sh, spans))>> \o sur[2],
                         <<>>, TRUE, TRUE)
    /\ page_no = 0
    /\ text_out = NoOutput
    /\ images_out = NoOutput
    /\ filename = <<>>
    /\ pdf_bytes = Malformed
    /\ include_images = FALSE
    /\ embed_images = FALSE
    /\ pc = "idle"
    /\ handle = "none"
    /\ close_count = 0
    /\ page_number = 0
    /\ markdown_pages = <<>>
    /\ all_images = <<>>
    /\ result = NoResult
    /\ response = NoResponse
    /\ error = NoError
    /\ get_images_calls = 0
    /\ extract_image_calls = 0

ExtractText ==
    /\ ~text_out.set
    /\ LET r == extract_text_with_formatting(page)
       IN  text_out' = [set |-> TRUE, raised |-> r.raised, value |-> r.text]
    /\ UNCHANGED << page, page_no, images_out >>
    /\ UNCHANGED request_vars

NextText == ExtractText

SpecText == InitText /\ [][NextText]_vars

(***************************************************************************)
(* extract_images_as_base64 called on one page.                            *)
(***************************************************************************)
PageNumbers == {1, 2, 10}

InitImages ==
    /\ \E refs \in SeqsUpTo(Xrefs, MaxImages), ok \in BOOLEAN :
          page = Page(<<>>, refs, TRUE, ok)
    /\ page_no \in PageNumbers
    /\ text_out = NoOutput
    /\ images_out = NoOutput
    /\ filename = <<>>
    /\ pdf_bytes = Malformed
    /\ include_images = FALSE
    /\ embed_images = FALSE
    /\ pc = "idle"
    /\ handle = "none"
    /\ close_count = 0
    /\ page_number = 0
    /\ markdown_pages = <<>>
    /\ all_images = <<>>
    /\ result = NoResult
    /\ response = NoResponse
    /\ error = NoError
    /\ get_images_calls = 0
    /\ extract_image_calls = 0

ExtractImages ==
    /\ ~images_out.set
    /\ LET r == extract_images_as_base64(page, page_no)
       IN  images_out' = [set |-> TRUE, raised |-> r.raised, value |-> r.images]
    /\ UNCHANGED << page, page_no, text_out >>
    /\ UNCHANGED request_vars

NextImages == ExtractImages

SpecImages == InitImages /\ [][NextImages]_vars

(***************************************************************************)
(* Properties of extract_text_with_formatting (SpecText).                  *)
(***************************************************************************)
RemoveAt(seq, i) == SubSeq(seq, 1, i - 1) \o SubSeq(seq, i + 1, Len(seq))

\* a line survives when its formatted text has a character that is no space
Survives(line) == \E i \in 1..Len(LineText(line)) : ~IsSpace(LineText(line)[i])

SurvivingLines(block) == SelectSeq(block.lines, Survives)

LargestSize(line) ==
    CHOOSE m \in {line[i].size : i \in 1..Len(line)} :
        \A i \in 1..Len(line) : line[i].size <= m

\* the sum of the per-line maximum sizes of the lines
RECURSIVE TotalSize(_)
TotalSize(lines) ==
    IF lines = <<>> THEN 0 ELSE LargestSize(Head(lines)) + TotalSize(Tail(lines))

\* the level the mean total / n falls in
LevelPrefix(total, n) ==
    CASE total > 18 * n -> <<"#", " ">>
      [] 14 * n < total /\ total <= 18 * n -> <<"#", "#", " ">>
      [] 12 * n < total /\ total <= 14 * n -> <<"#", "#", "#", " ">>
      [] total <= 12 * n -> <<>>

ExpectedBlockString(block) ==
    LET lines == SurvivingLines(block)
    IN  LevelPrefix(TotalSize(lines), Len(lines))
        \o Join([i \in 1..Len(lines) |-> Strip(LineText(lines[i]))], <<" ">>)

EmittingBlocks(blocks) ==
    SelectSeq(blocks, LAMBDA b : b.type = 0 /\ SurvivingLines(b) # <<>>)

\* C1: every Text block with a surviving line emits exactly one string, in
\* block order, prefixed "# " iff the mean of the surviving lines' maximum
\* span sizes is > 18, "## " iff it is in (14, 18], "### " iff it is in
\* (12, 14], and unprefixed iff it is <= 12.
C1_HeadingByMeanOfSurvivingLines ==
    text_out.set =>
        LET blocks == EmittingBlocks(page.blocks)
        IN  /\ ~text_out.raised
            /\ text_out.value =
                 Join([i \in 1..Len(blocks) |-> ExpectedBlockString(blocks[i])],
                      <<"\n", "\n">>)

\* a block of two surviving lines of sizes 14 and 22, mean exactly 18, is H2
C1_Witness ==
    /\ text_out.set
    /\ Len(page.blocks) = 1
    /\ page.blocks[1].lines = << <<Span(<<"a">>, 14, 0)>>, <<Span(<<"a">>, 22, 0)>> >>
    /\ text_out.value = <<"#", "#", " ", "a", " ", "a">>

BlankText(text) == \A i \in 1..Len(text) : IsSpace(text[i])

BlankLine(line) == \A i \in 1..Len(line) : BlankText(line[i].text)

BlankBlock(block) ==
    /\ block.type = 0
    /\ \A l \in 1..Len(block.lines) : BlankLine(block.lines[l])

WithoutBlock(p, b) == [p EXCEPT !.blocks = RemoveAt(@, b)]

WithoutLine(p, b, l) == [p EXCEPT !.blocks[b].lines = RemoveAt(@, l)]

\* C10: a Text block whose spans all have empty or whitespace-only text,
\* whatever their sizes and flags, adds nothing to the page's text (the text
\* equals that of the page without the block); a line of such spans inside
\* a block with other lines adds nothing to the block's text or average.
C10_BlankBlocksAndLinesAddNothing ==
    text_out.set =>
        /\ \A b \in 1..Len(page.blocks) :
              BlankBlock(page.blocks[b]) =>
                 text_out.value = extract_text_with_formatting(WithoutBlock(page, b)).text
        /\ \A b \in 1..Len(page.blocks) :
              \A l \in 1..Len(page.blocks[b].lines) :
                 (BlankLine(page.blocks[b].lines[l]) /\ Len(page.blocks[b].lines) > 1) =>
                    text_out.value =
                       extract_text_with_formatting(WithoutLine(page, b, l)).text

(***************************************************************************)
(* Properties of extract_images_as_base64 (SpecImages).                    *)
(***************************************************************************)
\* the 1-based positions of the references whose retrieval succeeds
OkPositions(refs) == {j \in 1..Len(refs) : ImageTable[refs[j]].ok}

\* C7: the descriptors are exactly those of the references whose retrieval
\* succeeded, in encounter order; each carries the display page number and
\* the 0-based position of its reference among all references of the page.
C7_OneDescriptorPerRetrievedImage ==
    images_out.set =>
        /\ images_out.raised <=> ~page.images_ok
        /\ ~images_out.raised =>
              LET out == images_out.value
              IN  /\ Len(out) = Cardinality(OkPositions(page.images))
                  /\ \A k \in 1..Len(out) :
                        /\ out[k].page = page_no
                        /\ out[k].index + 1 \in OkPositions(page.images)
                        /\ out[k].format = ImageTable[page.images[out[k].index + 1]].ext
                        /\ out[k].base64 =
                             b64encode(ImageTable[page.images[out[k].index + 1]].image)
                  /\ \A k \in 1..(Len(out) - 1) : out[k].index < out[k + 1].index

\* a failed retrieval between two successful ones: indices 0 and 2 survive
C7_Witness ==
    /\ images_out.set
    /\ page.images = <<1, 3, 2>>
    /\ page_no = 10
    /\ images_out.value =
         << [page |-> 10, index |-> 0, format |-> <<"p", "n", "g">>,
             base64 |-> <<"i", "V", "B", "O">>],
            [page |-> 10, index |-> 2, format |-> <<"j", "p", "e", "g">>,
             base64 |-> <<"/", "9", "g", "=">>] >>

(***************************************************************************)
(* Properties of one request (Spec).                                       *)
(***************************************************************************)
NumPages == Len(pdf_bytes.pages)

Returned == pc \in {"returned", "responded"}

\* the separator fragment captioned with the display page number k
Caption(k) ==
    <<"\n", "-", "-", "-", "\n", "\n", "*", "P", "a", "g", "e", " ">>
    \o IntToStr(k) \o <<"*", "\n">>

IsCaption(s) == \E k \in 0..(NumPages + 1) : s = Caption(k)

\* the rendered text of the i-th page, i counted from 1
TextOfPage(i) == extract_text_with_formatting(pdf_bytes.pages[i]).text

StartsWith(s, prefix) ==
    /\ Len(s) >= Len(prefix)
    /\ SubSeq(s, 1, Len(prefix)) = prefix

\* s has sub as a contiguous part
Contains(s, sub) ==
    \E i \in 1..(Len(s) - Len(sub) + 1) : SubSeq(s, i, i + Len(sub) - 1) = sub

\* the descriptors of the images of the i-th page whose retrieval succeeds
RetrievedImages(i) ==
    LET refs == pdf_bytes.pages[i].images
        pos == SelectSeq([j \in 1..Len(refs) |-> j], LAMBDA j : ImageTable[refs[j]].ok)
    IN  [k \in 1..Len(pos) |->
            [page |-> i, index |-> pos[k] - 1, format |-> ImageTable[refs[pos[k]]].ext,
             base64 |-> b64encode(ImageTable[refs[pos[k]]].image)]]

RECURSIVE RetrievedImagesUpTo(_)
RetrievedImagesUpTo(n) ==
    IF n = 0 THEN <<>> ELSE RetrievedImagesUpTo(n - 1) \o RetrievedImages(n)

\* the markdown of the first n pages rendered without any image
RECURSIVE TextOnlyPages(_)
TextOnlyPages(n) ==
    IF n = 0 THEN <<>>
    ELSE IF n = 1 THEN <<TextOfPage(1)>>
    ELSE TextOnlyPages(n - 1) \o <<Caption(n), TextOfPage(n)>>

TextOnlyMarkdown == Join(TextOnlyPages(NumPages), <<"\n", "\n">>)

\* the image reference of descriptor d, as the markdown embeds it
Fragment(d) ==
    <<"\n", "\n", "!", "[", "I", "m", "a", "g", "e", " ">> \o IntToStr(d.index + 1)
    \o <<" ", "f", "r", "o", "m", " ", "p", "a", "g", "e", " ">> \o IntToStr(d.page)
    \o <<"]", "(", "d", "a", "t", "a", ":", "i", "m", "a", "g", "e", "/">> \o d.format
    \o <<";", "b", "a", "s", "e", "6", "4", ",">> \o d.base64 \o <<")", "\n">>

RECURSIVE Fragments(_)
Fragments(ds) == IF ds = <<>> THEN <<>> ELSE Fragment(Head(ds)) \o Fragments(Tail(ds))

\* C2: once the document is open, every exit of the call, by return or by
\* exception, leaves the handle closed, and closed exactly once.
C2_HandleClosedOnEveryExit ==
    (pc \in {"raised", "returned", "responded"} /\ handle # "none") =>
        (handle = "closed" /\ close_count = 1)

\* C3: once the document is open no failure aborts the call: a failure
\* while reading a page's blocks, listing its image references or resolving
\* an image is isolated, and the call returns the markdown of all pages.
C3_OnlyOpenFailureAborts ==
    /\ handle # "none" => pc # "raised"
    /\ Returned =>
          /\ page_number = NumPages
          /\ Len(markdown_pages) = (IF NumPages = 0 THEN 0 ELSE 2 * NumPages - 1)
          /\ result.markdown = Join(markdown_pages, <<"\n", "\n">>)

\* C4: the page-text sequence of k processed pages has one separator
\* "\n---\n\n*Page {i+1}*\n" for each page index 0 < i < k, right before
\* that page's text and after the previous page's, and no other separator;
\* a returned call has processed all the pages.
C4_OneSeparatorBetweenPages ==
    (pc = "loop" \/ Returned) =>
        /\ Len(markdown_pages) = (IF page_number = 0 THEN 0 ELSE 2 * page_number - 1)
        /\ \A i \in 1..page_number :
              /\ StartsWith(markdown_pages[2 * i - 1], TextOfPage(i))
              /\ ~IsCaption(markdown_pages[2 * i - 1])
              /\ i > 1 => markdown_pages[2 * i - 2] = Caption(i)
        /\ Cardinality({j \in 1..Len(markdown_pages) : IsCaption(markdown_pages[j])})
             = (IF page_number = 0 THEN 0 ELSE page_number - 1)
        /\ Returned => page_number = NumPages

\* three pages, the second rendering to empty text, with images embedded
C4_Witness ==
    /\ pc = "returned"
    /\ NumPages = 3
    /\ include_images /\ embed_images
    /\ markdown_pages[3] = <<>>
    /\ markdown_pages[2] = Caption(2)
    /\ markdown_pages[4] = Caption(3)
    /\ Len(markdown_pages[5]) > Len(TextOfPage(3))

\* C5: with include_images and not embed_images the markdown is the
\* text-only rendering, without image reference or data URI, and the image
\* list holds one descriptor per retrieved image, by page then by index.
C5_ImagesListedNotEmbedded ==
    (Returned /\ include_images /\ ~embed_images) =>
        /\ result.markdown = TextOnlyMarkdown
        /\ ~Contains(result.markdown, <<"!", "[">>)
        /\ ~Contains(result.markdown, <<"d", "a", "t", "a", ":">>)
        /\ result.has_images
        /\ result.images = RetrievedImagesUpTo(NumPages)
        /\ \A k \in 1..(Len(result.images) - 1) :
              \/ result.images[k].page < result.images[k + 1].page
              \/ /\ result.images[k].page = result.images[k + 1].page
                 /\ result.images[k].index < result.images[k + 1].index
        /\ response.set => (response.images = result.images
                            /\ response.markdown = result.markdown)

\* images of two pages, one retrieval failed in between
C5_Witness ==
    /\ pc = "responded"
    /\ include_images /\ ~embed_images
    /\ NumPages = 2
    /\ pdf_bytes.pages[1].images = <<3, 2, 4>>
    /\ Len(response.images) = 3
    /\ response.images[1].page = 1 /\ response.images[1].index = 1
    /\ response.images[2].page = 1 /\ response.images[2].index = 2
    /\ response.images[3].page = 2 /\ response.images[3].index = 0

\* C6: with include_images and embed_images there is no image list, and the
\* markdown of every page is the page's text followed by one image reference
\* per retrieved image of that page, in extraction order.
C6_ImagesEmbeddedInTheirPage ==
    (include_images /\ embed_images) =>
        /\ all_images = <<>>
        /\ result.set => (~result.has_images /\ result.images = <<>>)
        /\ response.set => response.images = <<>>
        /\ (pc = "loop" \/ Returned) =>
              \A i \in 1..page_number :
                 /\ 2 * i - 1 <= Len(markdown_pages)
                 /\ markdown_pages[2 * i - 1] =
                      TextOfPage(i) \o Fragments(RetrievedImages(i))

\* the second page embeds its second and third image after its empty text
C6_Witness ==
    /\ pc = "responded"
    /\ include_images /\ embed_images
    /\ NumPages = 2
    /\ pdf_bytes.pages[2].images = <<3, 2, 4>>
    /\ markdown_pages[3] =
         <<"\n", "\n", "!", "[", "I", "m", "a", "g", "e", " ", "2", " ", "f", "r", "o",
           "m", " ", "p", "a", "g", "e", " ", "2", "]", "(", "d", "a", "t", "a", ":",
           "i", "m", "a", "g", "e", "/", "j", "p", "e", "g", ";", "b", "a", "s", "e",
           "6", "4", ",", "/", "9", "g", "=", ")", "\n",
           "\n", "\n", "!", "[", "I", "m", "a", "g", "e", " ", "3", " ", "f", "r", "o",
           "m", " ", "p", "a", "g", "e", " ", "2", "]", "(", "d", "a", "t", "a", ":",
           "i", "m", "a", "g", "e", "/", "g", "i", "f", ";", "b", "a", "s", "e",
           "6", "4", ",", "R", "w", "=", "=", ")", "\n">>
    /\ response.images = <<>>

\* C8: without include_images no image is looked for or retrieved, the
\* markdown is the text-only rendering and the image list is empty, whatever
\* embed_images is.
C8_NoImagesUnlessRequested ==
    ~include_images =>
        /\ get_images_calls = 0
        /\ extract_image_calls = 0
        /\ all_images = <<>>
        /\ error # Uncaught("get_images")
        /\ result.set =>
              /\ ~result.has_images
              /\ result.images = <<>>
              /\ result.markdown = TextOnlyMarkdown
        /\ response.set =>
              /\ response.images = <<>>
              /\ response.markdown = TextOnlyMarkdown

\* a document with images, one page's image list unreadable, embed_images set
C8_Witness ==
    /\ pc = "responded"
    /\ ~include_images /\ embed_images
    /\ NumPages = 2
    /\ pdf_bytes.pages[1].images = <<3, 2, 4>>
    /\ ~pdf_bytes.pages[2].images_ok
    /\ response.images = <<>>

\* C9: when the document cannot be opened the call raises HTTP 400 with the
\* cause, before any page is processed and without any result.
C9_ParseFailureAbortsWithoutResult ==
    ~pdf_bytes.valid =>
        /\ pc \in {"request", "open", "raised"}
        /\ handle = "none"
        /\ page_number = 0
        /\ markdown_pages = <<>>
        /\ all_images = <<>>
        /\ get_images_calls = 0 /\ extract_image_calls = 0
        /\ ~result.set
        /\ ~response.set
        /\ (pc = "raised" /\ IsPdfName(filename)) =>
              /\ error.kind = "HTTPException"
              /\ error.status_code = 400
              /\ error.message = "Failed to parse PDF: "
              /\ error.cause = pdf_bytes.cause

C9_Witness ==
    /\ pc = "raised"
    /\ ~pdf_bytes.valid
    /\ IsPdfName(filename)
    /\ error.status_code = 400
    /\ error.cause = "no objects found"

====
